---- MODULE Spec2Model ----
(***************************************************************************)
(* Model of the STUN Binding responder (src/src/stunServer.cpp,            *)
(* src/src/stunServer.hpp, src/src/main.cpp).                              *)
(*                                                                         *)
(* Two specifications:                                                     *)
(*   Spec    the server as a reactor: receive handler, handlePacket,       *)
(*           per-request timers, sends, stop(), the signal handler.        *)
(*   SpecFn  the pure computations of the server (buildXorMappedAttr, the  *)
(*           response construction, the delay arithmetic) applied to       *)
(*           inputs drawn from bounded sets, including IPv6 endpoints,     *)
(*           which the IPv4-bound socket of Spec never delivers, an        *)
(*           endpoint of neither family, and the draws of the static       *)
(*           distribution by instances with different offsets.             *)
(*                                                                         *)
(* Memory is modelled at byte level.  The byte order of the host is an     *)
(* implementation property of the build, so it is a value chosen in Init   *)
(* (littleEndian) and htons/htonl/ntohs/ntohl and the struct overlays      *)
(* are computed from it.                                                   *)
(***************************************************************************)
EXTENDS Integers, Sequences, FiniteSets, TLC

VARIABLES
  littleEndian,          \* byte order of the host the server was built for
  _delay_ms,             \* StunServer::_delay_ms           (uint32_t)
  _max_delay_offset_ms,  \* StunServer::_max_delay_offset_ms (uint32_t)
  ioRunning,             \* io_context: run() is dispatching handlers
  sockOpen,              \* _socket is open
  _buffer,               \* first MaxDgram bytes of StunServer::_buffer
  _remote,               \* StunServer::_remote
  lastBytes,             \* `bytes` of the last receive completion
  lastEc,                \* `ec` of the last receive completion
  nRecv,                 \* number of receive completions dispatched so far
  recvOps,               \* async_receive_from operations outstanding on _socket
  dist,                  \* the function-local static distribution of handlePacket
  timers,                \* pending steady_timers with the state their handler captured
  sends,                 \* async_send_to operations, in the order they were initiated
  now,                   \* steady clock, milliseconds
  fnOp, fnIn, fnOut      \* SpecFn: the function applied last, its input and result

srvVars == <<_delay_ms, _max_delay_offset_ms, ioRunning, sockOpen, _buffer, _remote,
             lastBytes, lastEc, nRecv, recvOps, dist, timers, sends, now>>
fnVars  == <<fnOp, fnIn, fnOut>>
vars    == <<littleEndian, srvVars, fnVars>>

(***************************************************************************)
(* Bounds of the model.                                                    *)
(***************************************************************************)
MaxDgram   == 21   \* longest datagram delivered, and modelled prefix of _buffer
MaxRecv    == 2    \* receive completions on the open socket
MaxTime    == 1    \* last clock value

(***************************************************************************)
(* Program constants.                                                      *)
(***************************************************************************)
MAGIC_COOKIE         == 554869826   \* 0x2112A442
BINDING_REQUEST      == 1           \* 0x0001
BINDING_SUCCESS_RESP == 257         \* 0x0101
XOR_MAPPED_ADDRESS   == 32          \* 0x0020
SizeofStunHeader     == 20          \* sizeof(StunHeader), packed
TransIdLen           == 12          \* trans_id[12]

(***************************************************************************)
(* Integer and byte helpers.                                               *)
(***************************************************************************)
RECURSIVE BitXor(_, _, _)
\* operator ^ on two unsigned values of n bits
BitXor(a, b, n) ==
  IF n = 0 THEN 0
  ELSE (((a % 2) + (b % 2)) % 2) + 2 * BitXor(a \div 2, b \div 2, n - 1)

\* A uint16_t is a number.  A uint32_t does not fit the integers of the
\* model checker, so it is the sequence of its four base-256 digits, most
\* significant first; the operations on it are computed digit by digit and
\* wrap at 2^32 as the C++ operations do.
BE16(v) == << (v \div 256) % 256, v % 256 >>
BE32(v) == << (v \div 16777216) % 256, (v \div 65536) % 256, (v \div 256) % 256, v % 256 >>

Reverse(s) == [i \in 1..Len(s) |-> s[Len(s) + 1 - i]]

\* the value of a byte sequence read most significant byte first
RECURSIVE BEValue(_)
BEValue(s) == IF Len(s) = 0 THEN 0 ELSE 256 * BEValue(SubSeq(s, 1, Len(s) - 1)) + s[Len(s)]

\* object representation of a uint16_t / uint32_t in the host's memory
Store16(v) == IF littleEndian THEN Reverse(BE16(v)) ELSE BE16(v)
Store32(w) == IF littleEndian THEN Reverse(w) ELSE w
\* value of a uint16_t / uint32_t field overlaid on bytes of memory
Load16(s)  == IF littleEndian THEN BEValue(Reverse(s)) ELSE BEValue(s)
Load32(s)  == IF littleEndian THEN Reverse(s) ELSE s

Swap16(v) == BEValue(Reverse(BE16(v)))
Swap32(w) == Reverse(w)

ntohs_id(v) == v
ntohs(v) == IF littleEndian THEN Swap16(v) ELSE v
ntohl(w) == IF littleEndian THEN Swap32(w) ELSE w
htons(v) == IF littleEndian THEN Swap16(v) ELSE v
htonl(w) == IF littleEndian THEN Swap32(w) ELSE w

\* operator ^ on two uint32_t
Xor32(a, b) == [i \in 1..4 |-> BitXor(a[i], b[i], 8)]

\* ~w on a uint32_t
Not32(w) == [i \in 1..4 |-> 255 - w[i]]

\* operator + on two uint32_t: the sum modulo 2^32
Add32(a, b) ==
  LET s4 == a[4] + b[4]
      s3 == a[3] + b[3] + (s4 \div 256)
      s2 == a[2] + b[2] + (s3 \div 256)
      s1 == a[1] + b[1] + (s2 \div 256)
  IN  << s1 % 256, s2 % 256, s3 % 256, s4 % 256 >>

\* unary minus on a uint32_t: 2^32 - w modulo 2^32
Neg32(w) == Add32(Not32(w), BE32(1))

\* conversion of a uint32_t to int32_t (a number)
ToInt32(w)  == IF w[1] >= 128 THEN 0 - BEValue(Not32(w)) - 1 ELSE BEValue(w)
\* conversion of an int32_t (a number) to uint32_t
ToUint32(i) == IF i < 0 THEN Not32(BE32(0 - i - 1)) ELSE BE32(i)

(***************************************************************************)
(* Endpoints.  An IPv4 address is its uint32_t value (address_v4::to_uint), *)
(* an IPv6 address its 16 bytes in network order (address_v6::to_bytes).   *)
(***************************************************************************)
V4(a, b, c, d, port) == [family |-> "v4", addr |-> <<a, b, c, d>>, port |-> port]
V6(bytes, port)      == [family |-> "v6", addr |-> bytes, port |-> port]
is_v4(addr) == addr.family = "v4"
is_v6(addr) == addr.family = "v6"

\* a default-constructed udp::endpoint: 0.0.0.0:0
DefaultEndpoint == V4(0, 0, 0, 0, 0)

(***************************************************************************)
(* StunServer::buildXorMappedAttr: appends the attribute to `out`.         *)
(***************************************************************************)
\* memcpy(xor_mask, &MAGIC_COOKIE, 4); memcpy(xor_mask + 4, trans_id, 12)
XorMask(trans_id) == Store32(BE32(MAGIC_COOKIE)) \o trans_id

PortXor_nomask(src) == src.port
\* uint16_t port_xor = src.port() ^ (MAGIC_COOKIE >> 16)
PortXor(src) == BitXor(src.port, MAGIC_COOKIE \div 65536, 16)

AttrV4_hostorder(src) ==
  Store16(htons(XOR_MAPPED_ADDRESS)) \o Store16(htons(8)) \o <<0>> \o <<1>>
    \o Store16(htons(PortXor(src))) \o Store32(Xor32(src.addr, BE32(MAGIC_COOKIE)))
AttrV4(src) ==
  LET ip == Xor32(src.addr, BE32(MAGIC_COOKIE))
  IN  Store16(htons(XOR_MAPPED_ADDRESS)) \o Store16(htons(8)) \o <<0>> \o <<1>>
        \o Store16(htons(PortXor(src))) \o Store32(htonl(ip))

AttrV6(src, trans_id) ==
  LET xor_mask == XorMask(trans_id)
      ip6      == [i \in 1..16 |-> BitXor(src.addr[i], xor_mask[i], 8)]
  IN  Store16(htons(XOR_MAPPED_ADDRESS)) \o Store16(htons(20)) \o <<0>> \o <<2>>
        \o Store16(htons(PortXor(src))) \o ip6

buildXorMappedAttr(out, src, trans_id) ==
  IF is_v4(src) THEN out \o AttrV4(src)
  ELSE IF is_v6(src) THEN out \o AttrV6(src, trans_id)
  ELSE out

(***************************************************************************)
(* handlePacket, the computations.                                         *)
(***************************************************************************)
\* hdr->trans_id of the header overlaid on the buffer
HdrTransId(buf) == SubSeq(buf, 9, 20)

HeaderComplete_nocheck(bytes) == TRUE
\* !(bytes < sizeof(StunHeader))
HeaderComplete(bytes) == bytes >= SizeofStunHeader

\* msg_type == BINDING_REQUEST && cookie == MAGIC_COOKIE
IsBindingRequest(buf) ==
  LET msg_type == ntohs(Load16(SubSeq(buf, 1, 2)))
      cookie   == ntohl(Load32(SubSeq(buf, 5, 8)))
  IN  msg_type = BINDING_REQUEST /\ cookie = BE32(MAGIC_COOKIE)

RespLength_value(attrs) == htons(8)
\* resp_hdr.length = htons(attrs.size())
RespLength(attrs) == htons(Len(attrs) % 65536)

\* the response vector: resp_hdr followed by attrs
BuildResponse(buf, remote) ==
  LET attrs == buildXorMappedAttr(<<>>, remote, HdrTransId(buf))
  IN  Store16(htons(BINDING_SUCCESS_RESP)) \o Store16(RespLength(attrs))
        \o Store32(htonl(BE32(MAGIC_COOKIE))) \o HdrTransId(buf) \o attrs

\* dist(-_max_delay_offset_ms, _max_delay_offset_ms): the unary minus is
\* evaluated in uint32_t, both bounds are converted to int32_t
DistFor_positive(offset) == [a |-> 0, b |-> offset + offset]
DistFor(offset) == [a |-> ToInt32(Neg32(BE32(offset))), b |-> ToInt32(BE32(offset))]

\* auto delay_ms = _delay_ms + dist(gen): uint32_t + int32_t, computed in
\* uint32_t; the result is a uint32_t
DelayMs(base, jitter) == Add32(BE32(base), ToUint32(jitter))

ExpiresAfter_absolute(at, delay_ms) ==
  << 256 * delay_ms[1] + delay_ms[2], 256 * delay_ms[3] + delay_ms[4] >>
\* timer->expires_after(std::chrono::milliseconds(delay_ms)): the expiry is
\* a 64-bit count, here the pair <<multiples of 65536, remainder>>
ExpiresAfter(at, delay_ms) ==
  LET lo == at + 256 * delay_ms[3] + delay_ms[4]
  IN  << 256 * delay_ms[1] + delay_ms[2] + (lo \div 65536), lo % 65536 >>

\* comparison of two expiries
TimeLeq(x, y) == x[1] < y[1] \/ (x[1] = y[1] /\ x[2] <= y[2])

(***************************************************************************)
(* Inputs of Spec.                                                         *)
(***************************************************************************)
\* base delay and jitter offset as main passes them: both go through
\* static_cast<uint16_t>, so they lie in 0..65535
Configs == { <<0, 0>>, <<1, 1>> }

T0 == [i \in 1..TransIdLen |-> i - 1]      \* 0x00 .. 0x0B
T1 == [i \in 1..TransIdLen |-> 256 - i]    \* 0xFF .. 0xF4
TransIds == {T0, T1}

\* a header as it appears on the wire (all integers big-endian)
WireHeader(type, length, cookie, tid) == BE16(type) \o BE16(length) \o cookie \o tid

\* two Binding Requests that differ in the length field and in every byte
\* of the transaction id
RequestT0 == WireHeader(BINDING_REQUEST, 0, BE32(MAGIC_COOKIE), T0)
RequestT1 == WireHeader(BINDING_REQUEST, 8, BE32(MAGIC_COOKIE), T1)

\* senders: the socket is opened on udp::v4(), so every peer is IPv4
PeerA == V4(203, 0, 113, 5, 54321)
PeerB == V4(10, 0, 0, 1, 8738)
Peers == {PeerA, PeerB}

\* what the network delivers, as <<datagram, sender>>: a header-only
\* request, a request followed by filler bytes, headers with another type or
\* cookie, a request cut one byte short, and the empty datagram
Arrivals ==
  { <<RequestT0, PeerA>>,
    <<RequestT1 \o [i \in 1..(MaxDgram - SizeofStunHeader) |-> 170], PeerB>>,
    <<WireHeader(11, 0, BE32(MAGIC_COOKIE), T0), PeerA>>,
    <<WireHeader(256, 0, BE32(MAGIC_COOKIE), T0), PeerB>>,
    <<WireHeader(BINDING_REQUEST, 0, Reverse(BE32(MAGIC_COOKIE)), T0), PeerA>>,
    <<SubSeq(RequestT1, 1, SizeofStunHeader - 1), PeerB>>,
    << << >>, PeerA >> }

(***************************************************************************)
(* Spec: the server.                                                       *)
(***************************************************************************)
DistUninit == [init |-> FALSE, a |-> 0, b |-> 0]

\* static ... dist(...): initialised by the first call that reaches the
\* declaration, with the offset of the instance that makes that call
DistAfterInit(d, offset) == IF d.init THEN d ELSE [init |-> TRUE] @@ DistFor(offset)

\* StunServer::startReceive: one more async_receive_from is outstanding
startReceive(n) == n + 1

OnReceiveOk_norearm(n) == n - 1
\* the receive completion handler without error: the completed operation
\* is gone, handlePacket runs, startReceive is called
OnReceiveOk(n) == startReceive(n - 1)

OnReceiveErr_norearm(n) == n - 1
\* the receive completion handler with an error: the completed operation
\* is gone, startReceive is called
OnReceiveErr(n) == startReceive(n - 1)

FnIdle == fnOp = "none" /\ fnIn = <<>> /\ fnOut = <<>>

\* StunServer::StunServer, followed by io.run()
Init ==
  /\ littleEndian \in BOOLEAN
  /\ \E c \in Configs : _delay_ms = c[1] /\ _max_delay_offset_ms = c[2]
  /\ ioRunning = TRUE
  /\ sockOpen = TRUE
  /\ _buffer = [i \in 1..MaxDgram |-> 0]
  /\ _remote = DefaultEndpoint
  /\ lastBytes = 0
  /\ lastEc = "none"
  /\ nRecv = 0
  /\ recvOps = startReceive(0)
  /\ dist = DistUninit
  /\ timers = {}
  /\ sends = <<>>
  /\ now = 0
  /\ FnIdle

\* what the timer handler sends: *resp, the vector it captured by shared_ptr
TimerPayload_live(t) == BuildResponse(_buffer, t.remote)
TimerPayload(t) == t.resp

TimerDest_live(t) == _remote
\* where the timer handler sends: *remote, the copy of _remote it captured
TimerDest(t) == t.remote

TimersAfterFire_rearm(t) == timers
\* the timer is one-shot: its handler runs once and the timer is released
TimersAfterFire(t) == timers \ {t}

NextToFire_fifo(t) == \A u \in timers : t.id <= u.id
\* expired timers are dispatched in order of expiry
NextToFire(t) == \A u \in timers : TimeLeq(t.fireAt, u.fireAt)

\* StunServer::handlePacket(bytes), run on buffer buf and peer remote
handlePacket(buf, remote, bytes) ==
  IF HeaderComplete(bytes) /\ IsBindingRequest(buf)
  THEN /\ dist' = DistAfterInit(dist, _max_delay_offset_ms)
       /\ \E jitter \in (dist'.a)..(dist'.b) :
            LET delay_ms == DelayMs(_delay_ms, jitter)
            IN  timers' = timers \cup
                  { [ id       |-> nRecv + 1,
                      resp     |-> BuildResponse(buf, remote),
                      remote   |-> remote,
                      jitter   |-> jitter,
                      delay_ms |-> delay_ms,
                      at       |-> now,
                      fireAt   |-> ExpiresAfter(now, delay_ms),
                      req      |-> [buf |-> buf, bytes |-> bytes, peer |-> remote,
                                    prevEc |-> lastEc] ] }
  ELSE UNCHANGED <<dist, timers>>

\* completion handler of async_receive_from without error: the datagram d
\* from its sender is in _buffer and _remote; handlePacket, then startReceive
Receive ==
  /\ ioRunning /\ sockOpen /\ nRecv < MaxRecv /\ recvOps > 0
  /\ recvOps' = OnReceiveOk(recvOps)
  /\ \E arrival \in Arrivals :
       /\ _buffer' = [i \in 1..MaxDgram |->
                        IF i <= Len(arrival[1]) THEN arrival[1][i] ELSE _buffer[i]]
       /\ _remote' = arrival[2]
       /\ lastBytes' = Len(arrival[1])
       /\ lastEc' = "ok"
       /\ nRecv' = nRecv + 1
       /\ handlePacket(_buffer', _remote', lastBytes')
  /\ UNCHANGED <<littleEndian, _delay_ms, _max_delay_offset_ms, ioRunning, sockOpen,
                 sends, now, fnVars>>

\* completion handler of async_receive_from with an error on the open
\* socket: handlePacket is skipped, startReceive re-arms
ReceiveError ==
  /\ ioRunning /\ sockOpen /\ nRecv < MaxRecv /\ recvOps > 0
  /\ recvOps' = OnReceiveErr(recvOps)
  /\ lastBytes' = 0
  /\ lastEc' = "error"
  /\ nRecv' = nRecv + 1
  /\ UNCHANGED <<littleEndian, _delay_ms, _max_delay_offset_ms, ioRunning, sockOpen,
                 _buffer, _remote, dist, timers, sends, now, fnVars>>

\* completion handler of async_receive_from after close(): the operation
\* ends with an error, and startReceive starts the next one on the closed socket
ReceiveAborted ==
  /\ ioRunning /\ ~sockOpen /\ recvOps > 0
  /\ recvOps' = OnReceiveErr(recvOps)
  /\ lastBytes' = 0
  /\ lastEc' = "aborted"
  /\ UNCHANGED <<littleEndian, _delay_ms, _max_delay_offset_ms, ioRunning, sockOpen,
                 _buffer, _remote, nRecv, dist, timers, sends, now, fnVars>>

\* handler of timer->async_wait: the timer is never cancelled, so ec is
\* clear; it starts _socket.async_send_to(*resp, *remote).  Expired timers
\* are dispatched in order of expiry
TimerFire ==
  /\ ioRunning
  /\ \E t \in timers :
       /\ TimeLeq(t.fireAt, <<0, now>>)
       /\ NextToFire(t)
       /\ timers' = TimersAfterFire(t)
       /\ sends' = Append(sends, [ id      |-> t.id,
                                   payload |-> TimerPayload(t),
                                   dest    |-> TimerDest(t),
                                   req     |-> t.req,
                                   open    |-> sockOpen,
                                   seen    |-> nRecv,
                                   status  |-> "pending" ])
  /\ UNCHANGED <<littleEndian, _delay_ms, _max_delay_offset_ms, ioRunning, sockOpen,
                 _buffer, _remote, lastBytes, lastEc, nRecv, recvOps, dist, now, fnVars>>

\* completion handler of async_send_to: send_ec is set when the socket is
\* closed (bad descriptor, or the operation was aborted by close) and may be
\* set by the network otherwise; a set send_ec is logged with spdlog::warn
SendComplete ==
  /\ ioRunning
  /\ \E i \in 1..Len(sends) :
       /\ sends[i].status = "pending"
       /\ \E outcome \in (IF sockOpen /\ sends[i].open THEN {"sent", "failed"} ELSE {"failed"}) :
            sends' = [sends EXCEPT ![i].status = outcome]
  /\ UNCHANGED <<littleEndian, _delay_ms, _max_delay_offset_ms, ioRunning, sockOpen,
                 _buffer, _remote, lastBytes, lastEc, nRecv, recvOps, dist, timers, now,
                 fnVars>>

\* StunServer::stop(): _socket.close(ec)
stop ==
  /\ ioRunning /\ sockOpen
  /\ sockOpen' = FALSE
  /\ UNCHANGED <<littleEndian, _delay_ms, _max_delay_offset_ms, ioRunning,
                 _buffer, _remote, lastBytes, lastEc, nRecv, recvOps, dist, timers, sends,
                 now, fnVars>>

\* the signal handler of main: server.stop(); io.stop()
SignalHandler ==
  /\ ioRunning
  /\ sockOpen' = FALSE
  /\ ioRunning' = FALSE
  /\ UNCHANGED <<littleEndian, _delay_ms, _max_delay_offset_ms,
                 _buffer, _remote, lastBytes, lastEc, nRecv, recvOps, dist, timers, sends,
                 now, fnVars>>

\* the steady clock advances by a millisecond; the server reads the clock
\* only through its timers, so it is advanced only while one is pending
Tick ==
  /\ ioRunning /\ now < MaxTime
  /\ timers # {}
  /\ now' = now + 1
  /\ UNCHANGED <<littleEndian, _delay_ms, _max_delay_offset_ms, ioRunning, sockOpen,
                 _buffer, _remote, lastBytes, lastEc, nRecv, recvOps, dist, timers, sends,
                 fnVars>>

Next ==
  \/ Receive
  \/ ReceiveError
  \/ ReceiveAborted
  \/ TimerFire
  \/ SendComplete
  \/ stop
  \/ SignalHandler
  \/ Tick

Spec == Init /\ [][Next]_vars

(***************************************************************************)
(* SpecFn: the computations of the server applied to bounded inputs.       *)
(***************************************************************************)
FnAddrsV4 == { <<0, 0, 0, 0>>, <<203, 0, 113, 5>>, <<255, 255, 255, 255>>,
               <<33, 18, 164, 66>>, <<1, 2, 3, 4>> }
FnAddrsV6 == { [i \in 1..16 |-> 0], [i \in 1..16 |-> 255], [i \in 1..16 |-> i],
               <<32, 1, 13, 184, 0, 0, 0, 0, 0, 0, 0, 0, 0, 0, 0, 1>> }
FnPorts   == {0, 1, 8466, 54321, 65535}

FnEndpoints ==
  { [family |-> "v4", addr |-> a, port |-> p] : <<a, p>> \in FnAddrsV4 \X FnPorts }
    \cup { V6(a, p) : <<a, p>> \in FnAddrsV6 \X FnPorts }

\* <<base delay, jitter offset>>, within the range main passes
FnConfigs == { <<0, 0>>, <<100, 0>>, <<100, 20>>, <<20, 20>>, <<65535, 7>>,
               <<5, 10>>, <<0, 3>> }

InitFn ==
  /\ littleEndian \in BOOLEAN
  /\ _delay_ms = 0 /\ _max_delay_offset_ms = 0
  /\ ioRunning = TRUE
  /\ sockOpen = TRUE
  /\ _buffer = [i \in 1..MaxDgram |-> 0]
  /\ _remote = DefaultEndpoint
  /\ lastBytes = 0
  /\ lastEc = "none"
  /\ nRecv = 0
  /\ recvOps = startReceive(0)
  /\ dist = DistUninit
  /\ timers = {}
  /\ sends = <<>>
  /\ now = 0
  /\ FnIdle

\* buildXorMappedAttr(attrs, src, trans_id) on an empty attrs
FnBuildAttr ==
  /\ FnIdle
  /\ \E src \in FnEndpoints, tid \in TransIds :
       /\ fnOp' = "buildXorMappedAttr"
       /\ fnIn' = [src |-> src, trans_id |-> tid]
       /\ fnOut' = buildXorMappedAttr(<< >>, src, tid)
  /\ UNCHANGED <<littleEndian, srvVars>>

\* the response handlePacket builds for a request in the buffer and a peer
FnBuildResponse ==
  /\ FnIdle
  /\ \E buf \in {RequestT0, RequestT1}, remote \in FnEndpoints :
       /\ fnOp' = "BuildResponse"
       /\ fnIn' = [buf |-> buf, remote |-> remote]
       /\ fnOut' = BuildResponse(buf, remote)
  /\ UNCHANGED <<littleEndian, srvVars>>

\* the delay handlePacket computes for a draw of the distribution
FnDelay ==
  /\ FnIdle
  /\ \E c \in FnConfigs :
       \E jitter \in (DistFor(c[2]).a)..(DistFor(c[2]).b) :
         /\ fnOp' = "DelayMs"
         /\ fnIn' = [base |-> c[1], offset |-> c[2], jitter |-> jitter]
         /\ fnOut' = DelayMs(c[1], jitter)
  /\ UNCHANGED <<littleEndian, srvVars>>

\* an endpoint whose address answers false to both is_v4() and is_v6(): the
\* case the two branches of buildXorMappedAttr leave out
OtherEndpoint == [family |-> "other", addr |-> << >>, port |-> 54321]

\* handlePacket(bytes) on a server that has not handled a request, for a
\* Binding Request in the buffer and a peer; fnOut is what buildXorMappedAttr
\* appended to attrs
FnHandlePacket ==
  /\ FnIdle
  /\ \E buf \in {RequestT0, RequestT1}, remote \in Peers \cup {OtherEndpoint} :
       /\ fnOp' = "handlePacket"
       /\ fnIn' = [buf |-> buf, remote |-> remote]
       /\ fnOut' = buildXorMappedAttr(<< >>, remote, HdrTransId(buf))
       /\ handlePacket(buf, remote, SizeofStunHeader)
  /\ UNCHANGED <<littleEndian, _delay_ms, _max_delay_offset_ms, ioRunning, sockOpen,
                 _buffer, _remote, lastBytes, lastEc, nRecv, recvOps, sends, now>>

\* the jitter offsets of the StunServer instances of one process
FnOffsets == {0, 1, 3}

\* lines 97-100 of handlePacket run by a StunServer instance with the given
\* max_delay_offset_ms: rd, gen and dist are function-local statics, shared
\* by all instances and initialised by the first call; fnOut is dist(gen)
FnDraw ==
  /\ fnOp \in {"none", "dist"}
  /\ \E offset \in FnOffsets :
       /\ dist' = DistAfterInit(dist, offset)
       /\ \E jitter \in (dist'.a)..(dist'.b) :
            /\ fnOp' = "dist"
            /\ fnIn' = [offset |-> offset, first |-> ~dist.init]
            /\ fnOut' = jitter
  /\ UNCHANGED <<littleEndian, _delay_ms, _max_delay_offset_ms, ioRunning, sockOpen,
                 _buffer, _remote, lastBytes, lastEc, nRecv, recvOps, timers, sends,
                 now>>

NextFn ==
  \/ FnBuildAttr
  \/ FnBuildResponse
  \/ FnDelay
  \/ FnHandlePacket
  \/ FnDraw

SpecFn == InitFn /\ [][NextFn]_vars

(***************************************************************************)
(* Properties.                                                             *)
(***************************************************************************)
\* the acceptance condition read off the wire: N >= 20, the bytes at
\* offsets 0..1 are 0x00 0x01, the bytes at offsets 4..7 are 0x21 0x12 0xA4 0x42
WireBindingRequest(buf, n) ==
  /\ n >= 20
  /\ buf[1] = 0 /\ buf[2] = 1
  /\ buf[5] = 33 /\ buf[6] = 18 /\ buf[7] = 164 /\ buf[8] = 66

\* a step in which the receive handler ran
RecvStep == nRecv' = nRecv + 1

\* C1: a receive completion without error schedules a response exactly when
\* the datagram has at least 20 bytes, big-endian type 0x0001 at offset 0 and
\* big-endian cookie 0x2112A442 at offset 4, whatever the length field, the
\* transaction id and the bytes after the header are.
C1_AcceptIff ==
  [][ (RecvStep /\ lastEc' = "ok")
        => ( (\E t \in timers' \ timers : t.id = nRecv')
               <=> WireBindingRequest(_buffer', lastBytes') ) ]_vars

\* C1 witness: a header-only datagram of exactly 20 bytes was accepted.
C1_Witness ==
  /\ lastEc = "ok" /\ lastBytes = 20
  /\ \E t \in timers : t.id = nRecv /\ t.req.bytes = 20

\* C2: a receive completion whose datagram fails validation changes neither
\* the timers nor the sends, and every send that is started belongs to a
\* timer created by an earlier receive of a valid Binding Request.
C2_NoSendWithoutRequest ==
  [][ /\ (RecvStep /\ ~(lastEc' = "ok" /\ WireBindingRequest(_buffer', lastBytes')))
           => (timers' = timers /\ sends' = sends)
      /\ \A i \in (Len(sends) + 1)..Len(sends') :
           \E t \in timers :
             /\ t.id = sends'[i].id /\ t.id \in 1..nRecv
             /\ sends'[i].req = t.req
             /\ WireBindingRequest(t.req.buf, t.req.bytes) ]_vars

\* C2 witness: a 19-byte datagram was dropped although the stale bytes of
\* the buffer make the header area look like a Binding Request.
C2_Witness ==
  /\ lastEc = "ok" /\ lastBytes = 19
  /\ WireBindingRequest(_buffer, 20)
  /\ \A t \in timers : t.id # nRecv
  /\ \A i \in 1..Len(sends) : sends[i].id # nRecv

\* the attribute produced by buildXorMappedAttr, read from the wire
AttrXPort(attr) == BEValue(SubSeq(attr, 7, 8))
AttrXAddr(attr) == SubSeq(attr, 9, Len(attr))

\* C3: for an IPv4 endpoint, xport XOR 0x2112 is the port and the big-endian
\* xaddress XOR 0x2112A442 is the address.
C3_RoundTripV4 ==
  (fnOp = "buildXorMappedAttr" /\ fnIn.src.family = "v4")
    => /\ Len(fnOut) = 12
       /\ BitXor(AttrXPort(fnOut), 8466, 16) = fnIn.src.port
       /\ Xor32(AttrXAddr(fnOut), <<33, 18, 164, 66>>) = fnIn.src.addr

\* C3 witness: 203.0.113.5:54321 was encoded as xport 0xF523, xaddress 0xEA12D547.
C3_Witness ==
  /\ fnOp = "buildXorMappedAttr"
  /\ fnIn.src = V4(203, 0, 113, 5, 54321)
  /\ SubSeq(fnOut, 7, 12) = <<245, 35, 234, 18, 213, 71>>

\* C4: for an IPv6 endpoint, xport XOR 0x2112 is the port and the 16 xaddress
\* bytes XORed with 0x21 0x12 0xA4 0x42 followed by the transaction id are
\* the address.
C4_RoundTripV6 ==
  (fnOp = "buildXorMappedAttr" /\ fnIn.src.family = "v6")
    => /\ Len(fnOut) = 24
       /\ BitXor(AttrXPort(fnOut), 8466, 16) = fnIn.src.port
       /\ LET mask == <<33, 18, 164, 66>> \o fnIn.trans_id
          IN  [i \in 1..16 |-> BitXor(AttrXAddr(fnOut)[i], mask[i], 8)] = fnIn.src.addr

\* C5: the response sent for a request carries the transaction id of that
\* request in header bytes 8..19.
C5_TransIdEchoed ==
  \A i \in 1..Len(sends) :
    /\ Len(sends[i].payload) >= 20
    /\ SubSeq(sends[i].payload, 9, 20) = SubSeq(sends[i].req.buf, 9, 20)

\* C5 witness: a timer fired after a later datagram had put another
\* transaction id into the buffer.
C5_Witness ==
  \E i \in 1..Len(sends) :
    /\ sends[i].seen > sends[i].id
    /\ nRecv = sends[i].seen
    /\ lastEc = "ok" /\ lastBytes >= 20
    /\ SubSeq(_buffer, 9, 20) # SubSeq(sends[i].req.buf, 9, 20)
    /\ SubSeq(sends[i].payload, 9, 20) = SubSeq(sends[i].req.buf, 9, 20)

\* C6: a built response starts with type 0x0101, a big-endian length equal to
\* the number of bytes after the 20-byte header, and cookie 0x2112A442; that
\* number is 12 for an IPv4 peer and 24 for an IPv6 peer.
C6_ResponseHeader ==
  fnOp = "BuildResponse"
    => /\ Len(fnOut) >= 20
       /\ SubSeq(fnOut, 1, 2) = <<1, 1>>
       /\ BEValue(SubSeq(fnOut, 3, 4)) = Len(fnOut) - 20
       /\ SubSeq(fnOut, 5, 8) = <<33, 18, 164, 66>>
       /\ fnIn.remote.family = "v4" => Len(fnOut) = 20 + 12
       /\ fnIn.remote.family = "v6" => Len(fnOut) = 20 + 24

\* C6 witness: a response for an IPv6 peer, 44 bytes with length field 24.
C6_Witness ==
  /\ fnOp = "BuildResponse"
  /\ fnIn.remote.family = "v6"
  /\ Len(fnOut) = 44 /\ SubSeq(fnOut, 3, 4) = <<0, 24>>

\* the request of the scenario: 20 bytes, type 0x0001, length 0, cookie
\* 0x2112A442, transaction id 0x00..0x0B, from 203.0.113.5:54321, with
\* delay 0 and jitter 0
ScenarioSend(i) ==
  /\ _delay_ms = 0 /\ _max_delay_offset_ms = 0
  /\ sends[i].req.bytes = 20
  /\ SubSeq(sends[i].req.buf, 1, 20) =
       <<0, 1, 0, 0, 33, 18, 164, 66, 0, 1, 2, 3, 4, 5, 6, 7, 8, 9, 10, 11>>
  /\ sends[i].req.peer = [family |-> "v4", addr |-> <<203, 0, 113, 5>>, port |-> 54321]

\* the attribute of the scenario: type 0x0020, length 8, reserved 0,
\* family 1, xport 0xF523, xaddress 0xEA12D547
ScenarioAttr == <<0, 32, 0, 8, 0, 1, 245, 35, 234, 18, 213, 71>>

\* C7 as stated: the output of the scenario has header length 0x0008.
C7_ScenarioAsStated ==
  \A i \in 1..Len(sends) :
    ScenarioSend(i) =>
      sends[i].payload =
        <<1, 1, 0, 8, 33, 18, 164, 66, 0, 1, 2, 3, 4, 5, 6, 7, 8, 9, 10, 11>> \o ScenarioAttr

\* C7 amended: the request of the scenario yields one 32-byte output whose
\* header is {0x0101, length 0x000C, 0x2112A442, the same transaction id},
\* followed by the attribute of the scenario.
C7_Scenario ==
  \A i \in 1..Len(sends) :
    ScenarioSend(i) =>
      /\ Len(sends[i].payload) = 32
      /\ sends[i].payload =
           <<1, 1, 0, 12, 33, 18, 164, 66, 0, 1, 2, 3, 4, 5, 6, 7, 8, 9, 10, 11>> \o ScenarioAttr
      /\ sends[i].dest = sends[i].req.peer
      /\ \A j \in 1..Len(sends) : sends[j].id = sends[i].id => j = i

\* C7 witness: the output of the scenario was sent.
C7_Witness ==
  \E i \in 1..Len(sends) : ScenarioSend(i) /\ sends[i].status = "sent"

\* a uint32_t delay as a number, when it is below 2^24
DelayValue(w) == BEValue(w)

\* C8: with base >= offset the delay lies in [base - offset, base + offset],
\* and with offset = 0 it is base.
C8_DelayInRange ==
  (fnOp = "DelayMs" /\ fnIn.base >= fnIn.offset)
    => /\ fnOut[1] = 0
       /\ DelayValue(fnOut) >= fnIn.base - fnIn.offset
       /\ DelayValue(fnOut) <= fnIn.base + fnIn.offset
       /\ fnIn.offset = 0 => DelayValue(fnOut) = fnIn.base

\* C8 witness: base 100 and offset 20 gave the delay 80.
C8_Witness ==
  /\ fnOp = "DelayMs"
  /\ fnIn = [base |-> 100, offset |-> 20, jitter |-> -20]
  /\ fnOut = <<0, 0, 0, 80>>

\* C9: with base < offset the delay is at most base + offset, and it is 0
\* when base + jitter is negative.
C9_DelayFloor ==
  (fnOp = "DelayMs" /\ fnIn.base < fnIn.offset)
    => /\ fnOut[1] = 0
       /\ DelayValue(fnOut) <= fnIn.base + fnIn.offset
       /\ fnIn.base + fnIn.jitter < 0 => fnOut = <<0, 0, 0, 0>>

\* C10: no send is started on the socket after stop() closed it, so no
\* timer that fires after stop() ends in a failed send.
C10_NoSendAfterStop ==
  \A i \in 1..Len(sends) :
    /\ sends[i].open
    /\ ~(~sends[i].open /\ sends[i].status = "failed")

\* the timers and the sends that belong to the request of receive completion id
TimersOf(id) == {t \in timers : t.id = id}
SendsOf(id)  == {i \in 1..Len(sends) : sends[i].id = id}

C13_OneReceiveOutstanding ==
  /\ [](sockOpen => recvOps = 1)
  /\ [][ (RecvStep /\ sockOpen') => recvOps' = 1 ]_vars
  /\ []( (ioRunning /\ sockOpen /\ nRecv < MaxRecv) => ENABLED Receive )
  /\ [][ (RecvStep /\ lastEc' = "ok" /\ WireBindingRequest(_buffer', lastBytes'))
           => Cardinality(timers') = Cardinality(timers) + 1 ]_vars

\* C13 witness: a valid request was handled and got its timer while the send
\* of an earlier request was in flight, and the next receive is outstanding.
C13_Witness ==
  /\ sockOpen /\ ioRunning /\ recvOps = 1
  /\ lastEc = "ok"
  /\ \E t \in timers : t.id = nRecv
  /\ \E i \in 1..Len(sends) : sends[i].status = "pending" /\ sends[i].seen < nRecv

\* the position of the send of request id in the order of the sends
SendPos(id) == CHOOSE i \in 1..Len(sends) : sends[i].id = id

\* C14: responses are built in arrival order, at the receive of their
\* request; a timer fires only when no pending timer has a strictly earlier
\* fire time, so of two pending requests the one with the strictly earlier
\* fire time is sent first, whichever arrived first.
C14_SendOrderByFireTime ==
  /\ [][ (RecvStep /\ lastEc' = "ok" /\ WireBindingRequest(_buffer', lastBytes'))
           => \E t \in timers' \ timers :
                /\ t.id = nRecv' /\ \A u \in timers : u.id < t.id
                /\ t.resp = BuildResponse(_buffer', _remote')
                /\ t.fireAt = ExpiresAfter(now, t.delay_ms) ]_vars
  /\ [][ \A t \in timers \ timers' :
           /\ TimeLeq(t.fireAt, <<0, now>>)
           /\ \A u \in timers' : TimeLeq(t.fireAt, u.fireAt) ]_vars

\* C14 witness: with a non-zero jitter offset the request that arrived
\* second was sent first and the request that arrived first after it.
C14_Witness ==
  /\ _max_delay_offset_ms # 0
  /\ \E a \in 1..MaxRecv, b \in 1..MaxRecv :
       /\ a < b
       /\ SendsOf(a) # {} /\ SendsOf(b) # {}
       /\ SendPos(b) < SendPos(a)

\* C15: the response and the destination of a timer are built from the
\* datagram and the peer of its own request when handlePacket runs; a
\* pending timer stays as it is in every step, whatever a later receive puts
\* into _buffer and _remote, until the step that sends exactly its response
\* to exactly its destination, the peer of its request.
C15_PendingResponseFixed ==
  /\ [][ (RecvStep /\ lastEc' = "ok" /\ WireBindingRequest(_buffer', lastBytes'))
           => \E t \in timers' \ timers :
                /\ t.req.buf = _buffer' /\ t.req.peer = _remote'
                /\ t.resp = BuildResponse(_buffer', _remote')
                /\ t.remote = _remote' ]_vars
  /\ [][ \A t \in timers :
           \/ t \in timers'
           \/ /\ Len(sends') = Len(sends) + 1
              /\ sends'[Len(sends')].id = t.id
              /\ sends'[Len(sends')].req = t.req
              /\ sends'[Len(sends')].payload = t.resp
              /\ sends'[Len(sends')].dest = t.remote ]_vars
  /\ [](\A t \in timers : t.remote = t.req.peer)
  /\ [](\A i \in 1..Len(sends) : sends[i].dest = sends[i].req.peer)
  /\ [][ \A i \in 1..Len(sends) :
           /\ sends'[i].payload = sends[i].payload
           /\ sends'[i].dest = sends[i].dest ]_vars

\* C15 witness: a response was sent to the peer of its request after a later
\* datagram from another peer had overwritten _buffer and _remote.
C15_Witness ==
  \E i \in 1..Len(sends) :
    /\ sends[i].seen > sends[i].id
    /\ nRecv = sends[i].seen
    /\ lastEc = "ok"
    /\ _remote # sends[i].req.peer
    /\ SubSeq(_buffer, 1, 20) # SubSeq(sends[i].req.buf, 1, 20)
    /\ sends[i].dest = sends[i].req.peer
    /\ sends[i].status = "sent"

\* C16: a receive that completes with an error on the open socket does not
\* run handlePacket (the timers, the sends, the distribution and the buffer
\* are unchanged), leaves the socket open and the io_context running, and
\* re-arms the receive; a valid Binding Request received after it is
\* scheduled like any other.
C16_ReceiveErrorNotFatal ==
  /\ [][ (RecvStep /\ lastEc' = "error")
           => /\ UNCHANGED <<timers, sends, dist, _buffer>>
              /\ sockOpen' /\ ioRunning'
              /\ recvOps' = 1 ]_vars
  /\ []( (lastEc = "error" /\ sockOpen /\ ioRunning /\ nRecv < MaxRecv)
           => ENABLED Receive )
  /\ [][ (lastEc = "error" /\ RecvStep /\ lastEc' = "ok"
            /\ WireBindingRequest(_buffer', lastBytes'))
           => \E t \in timers' \ timers : t.id = nRecv' /\ t.remote = _remote' ]_vars

\* C16 witness: a request received right after a receive error was answered.
C16_Witness ==
  \E i \in 1..Len(sends) :
    /\ sends[i].req.prevEc = "error"
    /\ sends[i].status = "sent"
    /\ sends[i].dest = sends[i].req.peer

\* C17: after stop() closed the socket the receive loop quiesces: once the
\* handler of the aborted receive has run, no receive operation is
\* outstanding, so with no timer and no send pending the server has no
\* asynchronous operation left.
C17_ReceiveLoopQuiesces ==
  (~sockOpen /\ lastEc = "aborted") => recvOps = 0

\* C18: the jitter drawn for a request lies within
\* [-max_delay_offset_ms, +max_delay_offset_ms] of the instance that handles
\* the request, also when another instance handled a request before.
C18_JitterWithinInstanceOffset ==
  fnOp = "dist" => (fnOut >= -fnIn.offset /\ fnOut <= fnIn.offset)

\* C19: with jitter offset 0 every timer has the delay base, and of two
\* pending timers with equal delays the one whose request arrived at a
\* strictly earlier time fires first: a request is never sent while a
\* request that arrived strictly earlier with the same delay still waits.
C19_FifoWithEqualDelays ==
  /\ []( _max_delay_offset_ms = 0
           => \A t \in timers : t.jitter = 0 /\ t.delay_ms = BE32(_delay_ms) )
  /\ [][ \A t \in timers \ timers' : \A u \in timers' :
           ~(u.delay_ms = t.delay_ms /\ u.at < t.at) ]_vars
  /\ [](\A t \in timers : \A u \in timers : u.at < t.at => u.id < t.id)

\* C19 witness: with offset 0 the first request, which arrived at time 0,
\* has been sent while a request that arrived at a later time still waits.
C19_Witness ==
  /\ _max_delay_offset_ms = 0
  /\ Len(sends) >= 1 /\ sends[1].id = 1
  /\ \E t \in timers : t.at > 0 /\ t.id > 1

====
